---- MODULE Spec2Model ----
(***************************************************************************)
(* Model of src/pyth/wormhole.rs: the circuit representation of a Wormhole *)
(* VAA carrying a Pyth Merkle-root payload.                                *)
(*                                                                         *)
(*   - WormholePayload / VaaBody : fixed-offset byte codecs                *)
(*   - from_*_witness            : allocation from off-circuit witnesses   *)
(*   - Vaa<N>::from_vaa_witness  : quorum check + signature allocation     *)
(*   - Vaa<N>::ecrecover         : double hash + per-signature recovery    *)
(*                                                                         *)
(* A Byte<E> is modelled by its value 0..255.  Unsigned integers of 32 and *)
(* 64 bits are sequences of 16-bit limbs, least significant limb first, so *)
(* that big-endian encoding and decoding are real conversions.             *)
(* The constraint system is the log of the allocations made into it.       *)
(***************************************************************************)
EXTENDS Integers, Sequences, FiniteSets, TLC

VARIABLES
    cs,           \* the constraint system: the allocations made so far, in order
    cs0,          \* the constraint system as it was when the current call began
    call,         \* the operation called and its arguments
    result,       \* what the call returned
    strict_magic  \* whether the linked payload decoder validates the magic

vars == <<cs, cs0, call, result, strict_magic>>

(***************************************************************************)
(* Bounds of the explored inputs.                                          *)
(***************************************************************************)
MaxSeed   == 2  \* byte patterns start at one of MaxSeed+1 seed bytes
MaxStride == 2  \* consecutive bytes of a pattern differ by 0..MaxStride
MaxExtra  == 13 \* slices are up to MaxExtra bytes longer than a codec's length
MaxTag    == 1  \* payload variant tags 0..MaxTag on the wire
MaxSigs   == 3  \* a header carries 0..MaxSigs signatures
MaxSigId  == 2  \* signature values 0..MaxSigId
MaxN      == 3  \* quorum parameters N in 0..MaxN
MaxPrior  == 1  \* allocations already in the constraint system at the call

(***************************************************************************)
(* Constants of the source.                                                *)
(***************************************************************************)
LEN_WORMHOLE_BODY_TIMESTAMP         == 4
LEN_WORMHOLE_BODY_NONCE             == 4
LEN_WORMHOLE_BODY_EMITTER_CHAIN     == 2
LEN_WORMHOLE_BODY_EMITTER_ADDRESS   == 32
LEN_WORMHOLE_BODY_SEQUENCE          == 8
LEN_WORMHOLE_BODY_CONSISTENCY_LEVEL == 1

LEN_MAGIC        == 4
LEN_PAYLOAD_TYPE == 1
LEN_SLOT         == 8
LEN_RING_SIZE    == 4
\* keccak160::WIDTH_HASH_BYTES: a 160-bit hash.
WIDTH_HASH_BYTES == 20
LEN_ROOT         == WIDTH_HASH_BYTES
LEN_MESSAGE      == LEN_MAGIC + LEN_PAYLOAD_TYPE + LEN_SLOT + LEN_RING_SIZE + LEN_ROOT

LEN_WORMHOLE_BODY ==
    LEN_WORMHOLE_BODY_TIMESTAMP
    + LEN_WORMHOLE_BODY_NONCE
    + LEN_WORMHOLE_BODY_EMITTER_CHAIN
    + LEN_WORMHOLE_BODY_EMITTER_ADDRESS
    + LEN_WORMHOLE_BODY_SEQUENCE
    + LEN_WORMHOLE_BODY_CONSISTENCY_LEVEL
    + LEN_MESSAGE

PAYLOAD_TYPE == 0

(***************************************************************************)
(* Result<T, SynthesisError>.                                              *)
(***************************************************************************)
Ok(v)  == [ok |-> TRUE, val |-> v]
Err(e) == [ok |-> FALSE, err |-> e]

\* new_synthesis_error(format!("invalid bytes length {}, expect {}", got, expect))
LengthError(got, expect) == [kind |-> "length", got |-> got, expect |-> expect]
\* new_synthesis_error(format!("Only have {} signature. expect {} at least", have, expect))
QuorumError(have, expect) == [kind |-> "quorum", have |-> have, expect |-> expect]
\* new_synthesis_error(e) of a pythnet_sdk decoding error
FormatError == [kind |-> "format"]
\* an error passed through from a gadget
GadgetError(step) == [kind |-> "gadget", step |-> step]

(***************************************************************************)
(* Slices and arrays of bytes.                                             *)
(***************************************************************************)
\* bytes[offset..offset + len]
Slice(bytes, offset, len) == SubSeq(bytes, offset + 1, offset + len)

\* [Byte::zero(); len]
Zeroes(len) == [i \in 1..len |-> 0]

\* bytes[offset..offset + src.len()].copy_from_slice(src)
CopyFromSlice(bytes, offset, src) ==
    [i \in 1..Len(bytes) |->
        IF offset < i /\ i <= offset + Len(src) THEN src[i - offset] ELSE bytes[i]]

\* MerkleRoot::new(hash) and MerkleRoot::inner()
MerkleRoot_new(hash) == [hash |-> hash]
MerkleRoot_inner(root) == root.hash

(***************************************************************************)
(* WormholePayload: new, new_from_slice, to_bytes.                         *)
(***************************************************************************)
WormholePayload_new(bytes) ==
    LET o0 == 0
        magic == Slice(bytes, o0, LEN_MAGIC)
        o1 == o0 + LEN_MAGIC
        payload_type == Slice(bytes, o1, LEN_PAYLOAD_TYPE)
        o2 == o1 + LEN_PAYLOAD_TYPE
        slot == Slice(bytes, o2, LEN_SLOT)
        o3 == o2 + LEN_SLOT
        ring_size == Slice(bytes, o3, LEN_RING_SIZE)
        o4 == o3 + LEN_RING_SIZE
        root == MerkleRoot_new(Slice(bytes, o4, LEN_ROOT))
    IN  [magic |-> magic, payload_type |-> payload_type, slot |-> slot,
         ring_size |-> ring_size, root |-> root]

\* Faulty variant: the length check only rejects slices that are too short.
WormholePayload_new_from_slice_atleast(bytes) ==
    IF Len(bytes) < LEN_MESSAGE
    THEN Err(LengthError(Len(bytes), LEN_MESSAGE))
    ELSE Ok(WormholePayload_new(bytes))

WormholePayload_new_from_slice(bytes) ==
    IF Len(bytes) # LEN_MESSAGE
    THEN Err(LengthError(Len(bytes), LEN_MESSAGE))
    ELSE Ok(WormholePayload_new(bytes))

\* Faulty variant: ring_size is written before slot.
WormholePayload_to_bytes_swapped(self) ==
    LET b0 == Zeroes(LEN_MESSAGE)
        b1 == CopyFromSlice(b0, 0, self.magic)
        b2 == CopyFromSlice(b1, LEN_MAGIC, self.payload_type)
        b3 == CopyFromSlice(b2, LEN_MAGIC + LEN_PAYLOAD_TYPE, self.ring_size)
        b4 == CopyFromSlice(b3, LEN_MAGIC + LEN_PAYLOAD_TYPE + LEN_RING_SIZE, self.slot)
        b5 == CopyFromSlice(b4, LEN_MAGIC + LEN_PAYLOAD_TYPE + LEN_RING_SIZE + LEN_SLOT,
                            MerkleRoot_inner(self.root))
    IN  b5

WormholePayload_to_bytes(self) ==
    LET o0 == 0
        b0 == Zeroes(LEN_MESSAGE)
        b1 == CopyFromSlice(b0, o0, self.magic)
        o1 == o0 + LEN_MAGIC
        b2 == CopyFromSlice(b1, o1, self.payload_type)
        o2 == o1 + LEN_PAYLOAD_TYPE
        b3 == CopyFromSlice(b2, o2, self.slot)
        o3 == o2 + LEN_SLOT
        b4 == CopyFromSlice(b3, o3, self.ring_size)
        o4 == o3 + LEN_RING_SIZE
        b5 == CopyFromSlice(b4, o4, MerkleRoot_inner(self.root))
    IN  b5

(***************************************************************************)
(* VaaBody: new, new_from_slice, to_bytes.                                 *)
(***************************************************************************)
\* Faulty variant: the offset is not advanced past consistency_level.
VaaBody_new_stale_offset(bytes) ==
    LET o1 == LEN_WORMHOLE_BODY_TIMESTAMP
        o2 == o1 + LEN_WORMHOLE_BODY_NONCE
        o3 == o2 + LEN_WORMHOLE_BODY_EMITTER_CHAIN
        o4 == o3 + LEN_WORMHOLE_BODY_EMITTER_ADDRESS
        o5 == o4 + LEN_WORMHOLE_BODY_SEQUENCE
    IN  [timestamp |-> Slice(bytes, 0, LEN_WORMHOLE_BODY_TIMESTAMP),
         nonce |-> Slice(bytes, o1, LEN_WORMHOLE_BODY_NONCE),
         emitter_chain |-> Slice(bytes, o2, LEN_WORMHOLE_BODY_EMITTER_CHAIN),
         emitter_address |-> Slice(bytes, o3, LEN_WORMHOLE_BODY_EMITTER_ADDRESS),
         sequence |-> Slice(bytes, o4, LEN_WORMHOLE_BODY_SEQUENCE),
         consistency_level |-> Slice(bytes, o5, LEN_WORMHOLE_BODY_CONSISTENCY_LEVEL),
         payload |-> WormholePayload_new(Slice(bytes, o5, LEN_MESSAGE))]

VaaBody_new(bytes) ==
    LET o0 == 0
        timestamp == Slice(bytes, o0, LEN_WORMHOLE_BODY_TIMESTAMP)
        o1 == o0 + LEN_WORMHOLE_BODY_TIMESTAMP
        nonce == Slice(bytes, o1, LEN_WORMHOLE_BODY_NONCE)
        o2 == o1 + LEN_WORMHOLE_BODY_NONCE
        emitter_chain == Slice(bytes, o2, LEN_WORMHOLE_BODY_EMITTER_CHAIN)
        o3 == o2 + LEN_WORMHOLE_BODY_EMITTER_CHAIN
        emitter_address == Slice(bytes, o3, LEN_WORMHOLE_BODY_EMITTER_ADDRESS)
        o4 == o3 + LEN_WORMHOLE_BODY_EMITTER_ADDRESS
        sequence == Slice(bytes, o4, LEN_WORMHOLE_BODY_SEQUENCE)
        o5 == o4 + LEN_WORMHOLE_BODY_SEQUENCE
        consistency_level == Slice(bytes, o5, LEN_WORMHOLE_BODY_CONSISTENCY_LEVEL)
        o6 == o5 + LEN_WORMHOLE_BODY_CONSISTENCY_LEVEL
        payload == WormholePayload_new(Slice(bytes, o6, LEN_MESSAGE))
    IN  [timestamp |-> timestamp, nonce |-> nonce, emitter_chain |-> emitter_chain,
         emitter_address |-> emitter_address, sequence |-> sequence,
         consistency_level |-> consistency_level, payload |-> payload]

\* Faulty variant: the length check only rejects slices that are too short.
VaaBody_new_from_slice_atleast(bytes) ==
    IF Len(bytes) < LEN_WORMHOLE_BODY
    THEN Err(LengthError(Len(bytes), LEN_MESSAGE))
    ELSE Ok(VaaBody_new(bytes))

\* The error message names LEN_MESSAGE as the expected length, as the source does.
VaaBody_new_from_slice(bytes) ==
    IF Len(bytes) # LEN_WORMHOLE_BODY
    THEN Err(LengthError(Len(bytes), LEN_MESSAGE))
    ELSE Ok(VaaBody_new(bytes))

VaaBody_to_bytes(self) ==
    LET o0 == 0
        b0 == Zeroes(LEN_WORMHOLE_BODY)
        b1 == CopyFromSlice(b0, o0, self.timestamp)
        o1 == o0 + LEN_WORMHOLE_BODY_TIMESTAMP
        b2 == CopyFromSlice(b1, o1, self.nonce)
        o2 == o1 + LEN_WORMHOLE_BODY_NONCE
        b3 == CopyFromSlice(b2, o2, self.emitter_chain)
        o3 == o2 + LEN_WORMHOLE_BODY_EMITTER_CHAIN
        b4 == CopyFromSlice(b3, o3, self.emitter_address)
        o4 == o3 + LEN_WORMHOLE_BODY_EMITTER_ADDRESS
        b5 == CopyFromSlice(b4, o4, self.sequence)
        o5 == o4 + LEN_WORMHOLE_BODY_SEQUENCE
        b6 == CopyFromSlice(b5, o5, self.consistency_level)
        o6 == o5 + LEN_WORMHOLE_BODY_CONSISTENCY_LEVEL
        b7 == CopyFromSlice(b6, o6, WormholePayload_to_bytes(self.payload))
    IN  b7

(***************************************************************************)
(* Unsigned integers and their big-endian encoding.                        *)
(***************************************************************************)
\* An unsigned integer read from big-endian bytes (an even number of them):
\* its 16-bit limbs, least significant first.
BeToLimbs(bytes) ==
    [k \in 1..(Len(bytes) \div 2) |->
        bytes[Len(bytes) - 2 * k + 1] * 256 + bytes[Len(bytes) - 2 * k + 2]]

\* u32::to_be_bytes, u64::to_be_bytes
LimbsToBe(limbs) ==
    [j \in 1..(2 * Len(limbs)) |->
        LET k == Len(limbs) - ((j - 1) \div 2)
        IN  IF j % 2 = 1 THEN limbs[k] \div 256 ELSE limbs[k] % 256]

\* serde_wormhole::to_vec(&emitter_chain): a u16, big-endian
ChainToVec(chain) == <<chain \div 256, chain % 256>>

\* u8::to_be_bytes
U8ToBe(v) == <<v>>

(***************************************************************************)
(* The constraint system.                                                  *)
(***************************************************************************)
\* CSAllocatable::alloc_from_witness(cs, Some(bytes)): the bytes become
\* variables of the constraint system.
Alloc(c, tag, bytes) == Append(c, [tag |-> tag, value |-> bytes])

(***************************************************************************)
(* pythnet_sdk::wire::v1::WormholeMessage::try_from_bytes.                 *)
(* Wire form: magic [u8; 4], variant tag u8 (0 = Merkle, the only          *)
(* variant), slot u64, ring_size u32, root [u8; 20], big-endian.  The      *)
(* decoder does not look at bytes that follow the message.                 *)
(***************************************************************************)
ACCUMULATOR_UPDATE_WORMHOLE_VERIFICATION_MAGIC == <<65, 85, 87, 86>>

WormholeMessage_try_from_bytes(raw) ==
    IF Len(raw) < 4 + 1 + 8 + 4 + 20 THEN Err(FormatError)
    ELSE IF raw[5] # 0 THEN Err(FormatError)
    ELSE IF strict_magic /\ Slice(raw, 0, 4) # ACCUMULATOR_UPDATE_WORMHOLE_VERIFICATION_MAGIC
    THEN Err(FormatError)
    ELSE Ok([magic |-> Slice(raw, 0, 4),
             payload |-> [slot |-> BeToLimbs(Slice(raw, 5, 8)),
                          ring_size |-> BeToLimbs(Slice(raw, 13, 4)),
                          root |-> Slice(raw, 17, 20)]])

(***************************************************************************)
(* WormholePayload::from_wormhole_message_witness.                         *)
(***************************************************************************)
\* Faulty variant: payload_type is allocated from the first byte of the magic.
WormholePayload_from_wormhole_message_witness_type_from_witness(c, witness) ==
    LET payload == witness.payload
        c1 == Alloc(c, "magic", witness.magic)
        c2 == Alloc(c1, "payload_type", <<witness.magic[1]>>)
        c3 == Alloc(c2, "slot", LimbsToBe(payload.slot))
        c4 == Alloc(c3, "ring_size", LimbsToBe(payload.ring_size))
        c5 == Alloc(c4, "root", payload.root)
    IN  [cs |-> c5,
         res |-> Ok([magic |-> witness.magic, payload_type |-> <<witness.magic[1]>>,
                     slot |-> LimbsToBe(payload.slot),
                     ring_size |-> LimbsToBe(payload.ring_size),
                     root |-> MerkleRoot_new(payload.root)])]

WormholePayload_from_wormhole_message_witness(c, witness) ==
    LET magic == witness.magic
        c1 == Alloc(c, "magic", magic)
        payload_type == <<PAYLOAD_TYPE>>
        c2 == Alloc(c1, "payload_type", payload_type)
        \* let WormholePayload::Merkle(payload) = witness.payload
        payload == witness.payload
        slot == LimbsToBe(payload.slot)
        c3 == Alloc(c2, "slot", slot)
        ring_size == LimbsToBe(payload.ring_size)
        c4 == Alloc(c3, "ring_size", ring_size)
        c5 == Alloc(c4, "root", payload.root)
        root == MerkleRoot_new(payload.root)
    IN  [cs |-> c5,
         res |-> Ok([magic |-> magic, payload_type |-> payload_type, slot |-> slot,
                     ring_size |-> ring_size, root |-> root])]

(***************************************************************************)
(* VaaBody::from_vaa_body_witness.                                         *)
(***************************************************************************)
VaaBody_from_vaa_body_witness(c, witness) ==
    LET timestamp == LimbsToBe(witness.timestamp)
        c1 == Alloc(c, "timestamp", timestamp)
        nonce == LimbsToBe(witness.nonce)
        c2 == Alloc(c1, "nonce", nonce)
        emitter_chain == ChainToVec(witness.emitter_chain)
        c3 == Alloc(c2, "emitter_chain", emitter_chain)
        emitter_address == witness.emitter_address
        c4 == Alloc(c3, "emitter_address", emitter_address)
        sequence == LimbsToBe(witness.sequence)
        c5 == Alloc(c4, "sequence", sequence)
        consistency_level == U8ToBe(witness.consistency_level)
        c6 == Alloc(c5, "consistency_level", consistency_level)
        decoded == WormholeMessage_try_from_bytes(witness.payload)
    IN  IF ~decoded.ok THEN [cs |-> c6, res |-> Err(decoded.err)]
        ELSE LET p == WormholePayload_from_wormhole_message_witness(c6, decoded.val)
             IN  IF ~p.res.ok THEN p
                 ELSE [cs |-> p.cs,
                       res |-> Ok([timestamp |-> timestamp, nonce |-> nonce,
                                   emitter_chain |-> emitter_chain,
                                   emitter_address |-> emitter_address,
                                   sequence |-> sequence,
                                   consistency_level |-> consistency_level,
                                   payload |-> p.res.val])]

(***************************************************************************)
(* Gadgets used by Vaa: signature allocation, keccak256, UInt256, ecrecover.*)
(* A gadget call may fail; whether it does is an input of the model.       *)
(***************************************************************************)
\* Signature::from_bytes_witness(cs, &signature)
Signature_from_bytes_witness(c, signature, fails) ==
    IF fails THEN [cs |-> c, res |-> Err(GadgetError("from_bytes_witness"))]
    ELSE [cs |-> Alloc(c, "signature", <<signature>>), res |-> Ok([sig |-> signature])]

RECURSIVE Mix(_, _, _)
Mix(bytes, lo, hi) ==
    IF lo > hi THEN 0
    ELSE IF lo = hi THEN ((lo * 131 + 7) * (bytes[lo] + 1)) % 65521
    ELSE LET mid == (lo + hi) \div 2
         IN  (Mix(bytes, lo, mid) + Mix(bytes, mid + 1, hi)) % 65521

\* The hash function: a deterministic map from byte strings to 32 bytes.
Keccak256(bytes) ==
    LET h == (Mix(bytes, 1, Len(bytes)) + Len(bytes)) % 65521
    IN  [j \in 1..32 |-> (h * j + (h \div 256) + j * j) % 256]

\* keccak256::digest(cs, &bytes)
Keccak256_digest(c, bytes, fails) ==
    IF fails THEN [cs |-> c, res |-> Err(GadgetError("digest"))]
    ELSE [cs |-> Alloc(c, "keccak256", bytes), res |-> Ok(Keccak256(bytes))]

\* UInt256::from_be_bytes_fixed(cs, &bytes)
UInt256_from_be_bytes_fixed(c, bytes, fails) ==
    IF fails THEN [cs |-> c, res |-> Err(GadgetError("from_be_bytes_fixed"))]
    ELSE [cs |-> Alloc(c, "uint256", bytes), res |-> Ok(BeToLimbs(bytes))]

\* What Signature::ecrecover yields for a signature and a digest: a validity
\* flag and the recovered public key.
Recovered(signature, msg_hash) ==
    [valid |-> signature.sig % 2 = 0,
     pubkey |-> [sig |-> signature.sig, digest |-> msg_hash]]

\* Signature::ecrecover(cs, &msg_hash)
Signature_ecrecover(c, signature, msg_hash, fails) ==
    IF fails THEN [cs |-> c, res |-> Err(GadgetError("ecrecover"))]
    ELSE [cs |-> Alloc(c, "ecrecover", <<signature.sig>>),
          res |-> Ok(Recovered(signature, msg_hash))]

\* (Boolean, (UInt256, UInt256))::default()
DefaultPubkey ==
    [valid |-> FALSE, pubkey |-> [sig |-> 0, digest |-> [k \in 1..16 |-> 0]]]

(***************************************************************************)
(* Vaa<N>::from_vaa_witness.                                               *)
(***************************************************************************)
\* (0..N).map(|i| Signature::from_bytes_witness(cs, &header.signatures[i].signature))
\*       .collect::<Result<Vec<_>, _>>()
\* failAt is the slot whose allocation fails (0 when none does).
RECURSIVE AllocSignatures(_, _, _, _, _, _)
AllocSignatures(c, signatures, i, N, failAt, acc) ==
    IF i > N THEN [cs |-> c, res |-> Ok(acc)]
    ELSE LET signature == signatures[i].signature
             r == Signature_from_bytes_witness(c, signature, failAt = i)
         IN  IF ~r.res.ok THEN r
             ELSE AllocSignatures(r.cs, signatures, i + 1, N, failAt,
                                  Append(acc, r.res.val))

\* Faulty variant: a header with exactly N signatures is rejected.
Vaa_from_vaa_witness_off_by_one(c, message, N, failAt) ==
    LET b == VaaBody_from_vaa_body_witness(c, message.body)
    IN  IF ~b.res.ok THEN b
        ELSE IF Len(message.signatures) <= N
        THEN [cs |-> b.cs, res |-> Err(QuorumError(Len(message.signatures), N))]
        ELSE LET s == AllocSignatures(b.cs, message.signatures, 1, N, failAt, <<>>)
             IN  IF ~s.res.ok THEN s
                 ELSE [cs |-> s.cs, res |-> Ok([signatures |-> s.res.val, body |-> b.res.val])]

\* Faulty variant: the signatures at hand are allocated before the quorum check.
Vaa_from_vaa_witness_check_late(c, message, N, failAt) ==
    LET b == VaaBody_from_vaa_body_witness(c, message.body)
        have == Len(message.signatures)
        s == AllocSignatures(b.cs, message.signatures, 1,
                             IF have < N THEN have ELSE N, failAt, <<>>)
    IN  IF ~b.res.ok THEN b
        ELSE IF ~s.res.ok THEN s
        ELSE IF have < N
        THEN [cs |-> s.cs, res |-> Err(QuorumError(have, N))]
        ELSE [cs |-> s.cs, res |-> Ok([signatures |-> s.res.val, body |-> b.res.val])]

\* Faulty variant: the last N signatures of the header are taken.
Vaa_from_vaa_witness_last(c, message, N, failAt) ==
    LET b == VaaBody_from_vaa_body_witness(c, message.body)
        have == Len(message.signatures)
    IN  IF ~b.res.ok THEN b
        ELSE IF have < N
        THEN [cs |-> b.cs, res |-> Err(QuorumError(have, N))]
        ELSE LET s == AllocSignatures(b.cs, SubSeq(message.signatures, have - N + 1, have),
                                      1, N, failAt, <<>>)
             IN  IF ~s.res.ok THEN s
                 ELSE [cs |-> s.cs, res |-> Ok([signatures |-> s.res.val, body |-> b.res.val])]

\* Faulty variant: the signature count is checked before the body is allocated.
Vaa_from_vaa_witness_quorum_first(c, message, N, failAt) ==
    IF Len(message.signatures) < N
    THEN [cs |-> c, res |-> Err(QuorumError(Len(message.signatures), N))]
    ELSE LET b == VaaBody_from_vaa_body_witness(c, message.body)
         IN  IF ~b.res.ok THEN b
             ELSE LET s == AllocSignatures(b.cs, message.signatures, 1, N, failAt, <<>>)
                  IN  IF ~s.res.ok THEN s
                      ELSE [cs |-> s.cs,
                            res |-> Ok([signatures |-> s.res.val, body |-> b.res.val])]

Vaa_from_vaa_witness(c, message, N, failAt) ==
    LET b == VaaBody_from_vaa_body_witness(c, message.body)
    IN  IF ~b.res.ok THEN b
        ELSE IF Len(message.signatures) < N
        THEN [cs |-> b.cs, res |-> Err(QuorumError(Len(message.signatures), N))]
        ELSE LET s == AllocSignatures(b.cs, message.signatures, 1, N, failAt, <<>>)
             IN  IF ~s.res.ok THEN s
                 ELSE [cs |-> s.cs, res |-> Ok([signatures |-> s.res.val, body |-> b.res.val])]

(***************************************************************************)
(* Vaa<N>::ecrecover.  failStep names the gadget call that fails: 1 and 2  *)
(* the digests, 3 the conversion, 3 + i the recovery of signature i, and   *)
(* 0 none.                                                                 *)
(***************************************************************************)
\* for i in 0..self.signatures.len() { pubkeys[i] = self.signatures[i].ecrecover(cs, &msg_hash)? }
RECURSIVE RecoverAll(_, _, _, _, _, _)
RecoverAll(c, self, msg_hash, i, failStep, pubkeys) ==
    IF i > Len(self.signatures) THEN [cs |-> c, res |-> Ok(pubkeys)]
    ELSE LET r == Signature_ecrecover(c, self.signatures[i], msg_hash, failStep = 3 + i)
         IN  IF ~r.res.ok THEN r
             ELSE RecoverAll(r.cs, self, msg_hash, i + 1, failStep,
                             [pubkeys EXCEPT ![i] = r.res.val])

\* Faulty variant: the body bytes are hashed once.
Vaa_ecrecover_single_hash(c, self, failStep) ==
    LET bytes == VaaBody_to_bytes(self.body)
        hash1 == Keccak256_digest(c, bytes, failStep = 1)
        word == UInt256_from_be_bytes_fixed(hash1.cs, hash1.res.val, failStep = 3)
    IN  IF ~hash1.res.ok THEN hash1
        ELSE IF ~word.res.ok THEN word
        ELSE RecoverAll(word.cs, self, word.res.val, 1, failStep,
                        [i \in 1..Len(self.signatures) |-> DefaultPubkey])

Vaa_ecrecover(c, self, failStep) ==
    LET bytes == VaaBody_to_bytes(self.body)
        hash1 == Keccak256_digest(c, bytes, failStep = 1)
        hash2 == Keccak256_digest(hash1.cs, hash1.res.val, failStep = 2)
        msg_hash == UInt256_from_be_bytes_fixed(hash2.cs, hash2.res.val, failStep = 3)
        pubkeys == [i \in 1..Len(self.signatures) |-> DefaultPubkey]
    IN  IF ~hash1.res.ok THEN hash1
        ELSE IF ~hash2.res.ok THEN hash2
        ELSE IF ~msg_hash.res.ok THEN msg_hash
        ELSE RecoverAll(msg_hash.cs, self, msg_hash.res.val, 1, failStep, pubkeys)

(***************************************************************************)
(* Inputs: byte patterns.                                                  *)
(***************************************************************************)
ByteSeeds == {(65 + 83 * s) % 256 : s \in 0..MaxSeed}
Strides   == 0..MaxStride

\* The bytes seed, seed + stride, seed + 2 * stride, ... (mod 256).
Pattern(seed, stride, len) == [i \in 1..len |-> (seed + stride * (i - 1)) % 256]

\* A payload as it travels in a VAA body: a pattern, with the given variant
\* tag at offset 4 and, when auwv holds, the Pyth magic at offset 0.
RawPayload(seed, stride, len, tag, auwv) ==
    [i \in 1..len |->
        IF i = 5 THEN tag
        ELSE IF auwv /\ i <= 4 THEN ACCUMULATOR_UPDATE_WORMHOLE_VERIFICATION_MAGIC[i]
        ELSE (seed + stride * (i - 1)) % 256]

\* A wormhole_sdk::vaa::Body as serde_wormhole decodes it from the wire:
\* timestamp u32, nonce u32, emitter_chain u16, emitter_address [u8; 32],
\* sequence u64, consistency_level u8, then the payload as a raw message.
BodyWitness(seed, stride, payload) ==
    LET h == Pattern(seed, stride, 51)
    IN  [timestamp |-> BeToLimbs(Slice(h, 0, 4)),
         nonce |-> BeToLimbs(Slice(h, 4, 4)),
         emitter_chain |-> h[9] * 256 + h[10],
         emitter_address |-> Slice(h, 10, 32),
         sequence |-> BeToLimbs(Slice(h, 42, 8)),
         consistency_level |-> h[51],
         payload |-> payload]

\* serde_wormhole::to_vec(&body): the wire form of a body witness.
BodyWire(w) ==
    LimbsToBe(w.timestamp) \o LimbsToBe(w.nonce) \o ChainToVec(w.emitter_chain)
    \o w.emitter_address \o LimbsToBe(w.sequence) \o U8ToBe(w.consistency_level)
    \o w.payload

\* The payloads a VAA is built from: well formed, of another variant, one
\* byte short, one byte long.
VaaPayloadShapes ==
    {<<LEN_MESSAGE, 0>>, <<LEN_MESSAGE, 1>>, <<LEN_MESSAGE - 1, 0>>, <<LEN_MESSAGE + 1, 0>>}

\* header.signatures: count signatures, guardian indices ascending, values
\* start, start + step, ... (mod MaxSigId + 1).
HeaderSignatures(count, start, step) ==
    [i \in 1..count |->
        [index |-> i - 1, signature |-> (start + step * (i - 1)) % (MaxSigId + 1)]]

(***************************************************************************)
(* State machine.                                                          *)
(***************************************************************************)
NoCall   == [op |-> "none"]
NoResult == [ok |-> FALSE, err |-> [kind |-> "none"]]

\* An allocation made into the constraint system before the call.
PriorAlloc == [tag |-> "prior", value |-> <<>>]

Init ==
    /\ \E p \in 0..MaxPrior : cs = [i \in 1..p |-> PriorAlloc]
    /\ cs0 = cs
    /\ call = NoCall
    /\ result = NoResult
    /\ strict_magic \in BOOLEAN

\* WormholePayload::new_from_slice(&bytes), as in test_wormhole_payload
PayloadNewFromSlice ==
    /\ call = NoCall
    /\ \E seed \in ByteSeeds, stride \in Strides, len \in 0..(LEN_MESSAGE + MaxExtra) :
          LET bytes == Pattern(seed, stride, len) IN
          /\ call' = [op |-> "payload_new_from_slice", bytes |-> bytes]
          /\ result' = WormholePayload_new_from_slice(bytes)
    /\ UNCHANGED <<cs, cs0, strict_magic>>

\* VaaBody::new_from_slice(&bytes), as in test_wormhole_body
BodyNewFromSlice ==
    /\ call = NoCall
    /\ \E seed \in ByteSeeds, stride \in Strides, len \in 0..(LEN_WORMHOLE_BODY + MaxExtra) :
          LET bytes == Pattern(seed, stride, len) IN
          /\ call' = [op |-> "body_new_from_slice", bytes |-> bytes]
          /\ result' = VaaBody_new_from_slice(bytes)
    /\ UNCHANGED <<cs, cs0, strict_magic>>

\* try_from_bytes(&data) then WormholePayload::from_wormhole_message_witness(cs, payload),
\* as in test_wormhole_payload_from_witness. A payload the decoder rejects
\* never reaches the allocator.
PayloadFromWitness ==
    /\ call = NoCall
    /\ \E seed \in ByteSeeds, stride \in Strides, len \in 0..(LEN_MESSAGE + MaxExtra),
          tag \in 0..MaxTag, auwv \in BOOLEAN :
          LET raw == RawPayload(seed, stride, len, tag, auwv)
              decoded == WormholeMessage_try_from_bytes(raw)
          IN  /\ call' = [op |-> "payload_from_witness", raw |-> raw, decoded |-> decoded]
              /\ IF decoded.ok
                 THEN LET r == WormholePayload_from_wormhole_message_witness(cs, decoded.val)
                      IN  cs' = r.cs /\ result' = r.res
                 ELSE cs' = cs /\ result' = Err(decoded.err)
    /\ cs0' = cs
    /\ UNCHANGED strict_magic

\* VaaBody::from_vaa_body_witness(cs, body), as in test_wormhole_body_from_witness
BodyFromWitness ==
    /\ call = NoCall
    /\ \E seed \in ByteSeeds, stride \in Strides, len \in 0..(LEN_MESSAGE + MaxExtra),
          tag \in 0..MaxTag, auwv \in BOOLEAN :
          LET w == BodyWitness(seed, stride, RawPayload(seed, stride, len, tag, auwv))
              r == VaaBody_from_vaa_body_witness(cs, w)
          IN  /\ call' = [op |-> "body_from_witness", witness |-> w]
              /\ cs' = r.cs
              /\ result' = r.res
    /\ cs0' = cs
    /\ UNCHANGED strict_magic

\* Vaa::<_, N>::from_vaa_witness(cs, vaa), as in test_wormhole_message_from_witness
VaaFromWitness ==
    /\ call = NoCall
    /\ \E seed \in ByteSeeds, shape \in VaaPayloadShapes, count \in 0..MaxSigs,
          start \in 0..MaxSigId, step \in 1..MaxSigId, N \in 0..MaxN :
          \E failAt \in 0..N :
             LET body == BodyWitness(seed, 1, RawPayload(seed, 1, shape[1], shape[2], TRUE))
                 message == [signatures |-> HeaderSignatures(count, start, step),
                             body |-> body]
                 r == Vaa_from_vaa_witness(cs, message, N, failAt)
             IN  /\ call' = [op |-> "from_vaa_witness", message |-> message, N |-> N,
                             failAt |-> failAt]
                 /\ cs' = r.cs
                 /\ result' = r.res
    /\ cs0' = cs
    /\ UNCHANGED strict_magic

\* vaa.ecrecover(cs) on a Vaa that from_vaa_witness returned
Ecrecover ==
    /\ call.op = "from_vaa_witness"
    /\ result.ok
    /\ \E failStep \in 0..(3 + call.N) :
          LET r == Vaa_ecrecover(cs, result.val, failStep)
          IN  /\ call' = [op |-> "ecrecover", self |-> result.val, failStep |-> failStep]
              /\ cs' = r.cs
              /\ result' = r.res
    /\ cs0' = cs
    /\ UNCHANGED strict_magic

Next ==
    \/ VaaFromWitness
    \/ Ecrecover
    \/ PayloadNewFromSlice
    \/ BodyNewFromSlice
    \/ PayloadFromWitness
    \/ BodyFromWitness

Spec == Init /\ [][Next]_vars

(***************************************************************************)
(* Properties of the codecs.                                               *)
(***************************************************************************)
IsPayloadSliceCall == call.op = "payload_new_from_slice"
IsBodySliceCall    == call.op = "body_new_from_slice"

\* C1: round trip of both codecs. A slice of exactly the codec's length is
\* accepted, and to_bytes of the value built from it is that slice again,
\* byte for byte.
C1_RoundTrip ==
    /\ (IsPayloadSliceCall /\ Len(call.bytes) = LEN_MESSAGE) =>
          /\ result.ok
          /\ WormholePayload_to_bytes(result.val) = call.bytes
    /\ (IsBodySliceCall /\ Len(call.bytes) = LEN_WORMHOLE_BODY) =>
          /\ result.ok
          /\ VaaBody_to_bytes(result.val) = call.bytes

C1_Witness ==
    /\ IsBodySliceCall
    /\ result.ok
    /\ call.bytes[1] # call.bytes[2]
    /\ VaaBody_to_bytes(result.val) = call.bytes

\* C4 as stated: the payload codec accepts exactly the 49-byte slices and
\* the body codec exactly the 100-byte slices.
C4_Lengths49And100 ==
    /\ IsPayloadSliceCall =>
          /\ result.ok <=> Len(call.bytes) = 49
          /\ result.ok => Len(WormholePayload_to_bytes(result.val)) = 49
    /\ IsBodySliceCall =>
          /\ result.ok <=> Len(call.bytes) = 100
          /\ result.ok => Len(VaaBody_to_bytes(result.val)) = 100

\* C4 amended: the fixed wire lengths are 37 bytes (4+1+8+4+20) for the
\* payload and 88 bytes (4+4+2+32+8+1+37) for the body. Each new_from_slice
\* accepts exactly the slices of that length and each to_bytes returns that
\* many bytes.
C4_Lengths37And88 ==
    /\ LEN_MESSAGE = 37
    /\ LEN_WORMHOLE_BODY = 88
    /\ IsPayloadSliceCall =>
          /\ result.ok <=> Len(call.bytes) = 37
          /\ result.ok => Len(WormholePayload_to_bytes(result.val)) = 37
    /\ IsBodySliceCall =>
          /\ result.ok <=> Len(call.bytes) = 88
          /\ result.ok => Len(VaaBody_to_bytes(result.val)) = 88

C4_Witness ==
    /\ IsPayloadSliceCall
    /\ Len(call.bytes) = 37
    /\ result.ok
    /\ Len(WormholePayload_to_bytes(result.val)) = 37

\* C5: length rejection. A slice whose length differs from the codec's fixed
\* length, shorter (the empty slice included) or longer, yields a length
\* error and no value.
C5_LengthRejection ==
    /\ (IsPayloadSliceCall /\ Len(call.bytes) # LEN_MESSAGE) =>
          /\ ~result.ok
          /\ result.err.kind = "length"
          /\ result.err.got = Len(call.bytes)
    /\ (IsBodySliceCall /\ Len(call.bytes) # LEN_WORMHOLE_BODY) =>
          /\ ~result.ok
          /\ result.err.kind = "length"
          /\ result.err.got = Len(call.bytes)

C5_Witness ==
    /\ IsBodySliceCall
    /\ Len(call.bytes) = LEN_WORMHOLE_BODY + 1
    /\ ~result.ok
    /\ result.err.kind = "length"

\* C6: fixed-offset partition in declared order. The fields of an accepted
\* slice are the consecutive ranges magic 0..4, payload_type 4..5, slot
\* 5..13, ring_size 13..17, root the 20 bytes after them (payload), and
\* timestamp 0..4, nonce 4..8, emitter_chain 8..10, emitter_address 10..42,
\* sequence 42..50, consistency_level 50..51, payload the rest (body); the
\* ranges are contiguous and end at the end of the slice.
C6_Partition ==
    /\ (IsPayloadSliceCall /\ result.ok) =>
          LET p == call.bytes
              v == result.val
          IN  /\ v.magic = SubSeq(p, 1, 4)
              /\ v.payload_type = SubSeq(p, 5, 5)
              /\ v.slot = SubSeq(p, 6, 13)
              /\ v.ring_size = SubSeq(p, 14, 17)
              /\ MerkleRoot_inner(v.root) = SubSeq(p, 18, 37)
              /\ Len(MerkleRoot_inner(v.root)) = 20
              /\ Len(p) = 37
    /\ (IsBodySliceCall /\ result.ok) =>
          LET b == call.bytes
              v == result.val
          IN  /\ v.timestamp = SubSeq(b, 1, 4)
              /\ v.nonce = SubSeq(b, 5, 8)
              /\ v.emitter_chain = SubSeq(b, 9, 10)
              /\ v.emitter_address = SubSeq(b, 11, 42)
              /\ v.sequence = SubSeq(b, 43, 50)
              /\ v.consistency_level = SubSeq(b, 51, 51)
              /\ v.payload.magic = SubSeq(b, 52, 55)
              /\ v.payload.payload_type = SubSeq(b, 56, 56)
              /\ v.payload.slot = SubSeq(b, 57, 64)
              /\ v.payload.ring_size = SubSeq(b, 65, 68)
              /\ MerkleRoot_inner(v.payload.root) = SubSeq(b, 69, Len(b))
              /\ Len(MerkleRoot_inner(v.payload.root)) = 20

C6_Witness ==
    /\ IsBodySliceCall
    /\ result.ok
    /\ call.bytes[51] # call.bytes[52]
    /\ result.val.consistency_level = <<call.bytes[51]>>
    /\ result.val.payload.magic[1] = call.bytes[52]

(***************************************************************************)
(* Properties of Vaa<N>::from_vaa_witness.                                 *)
(***************************************************************************)
IsVaaCall == call.op = "from_vaa_witness"

\* Whether the body of the call's message is one the body allocator accepts.
VaaBodyAccepted == VaaBody_from_vaa_body_witness(cs0, call.message.body).res.ok

\* The tags of the allocations made since the call began.
NewTags == [i \in 1..(Len(cs) - Len(cs0)) |-> cs[Len(cs0) + i].tag]

\* The allocations a body makes, in order.
BodyTags ==
    <<"timestamp", "nonce", "emitter_chain", "emitter_address", "sequence",
      "consistency_level", "magic", "payload_type", "slot", "ring_size", "root">>

\* The allocations made since the call began, restricted to one tag.
NewValuesOf(tag) ==
    LET idx == {i \in (Len(cs0) + 1)..Len(cs) : cs[i].tag = tag}
        \* the k-th smallest index of idx
        Nth(k) == CHOOSE i \in idx : Cardinality({j \in idx : j <= i}) = k
    IN  [k \in 1..Cardinality(idx) |-> cs[Nth(k)].value]

\* C2: quorum boundary. When the body and every signature allocate,
\* construction succeeds exactly when the header has at least N signatures;
\* with fewer it fails with an error that carries the actual count and N.
C2_QuorumBoundary ==
    (IsVaaCall /\ VaaBodyAccepted /\ call.failAt = 0) =>
        /\ result.ok <=> Len(call.message.signatures) >= call.N
        /\ Len(call.message.signatures) < call.N =>
              /\ ~result.ok
              /\ result.err.kind = "quorum"
              /\ result.err.have = Len(call.message.signatures)
              /\ result.err.expect = call.N

C2_Witness ==
    /\ IsVaaCall
    /\ VaaBodyAccepted
    /\ call.failAt = 0
    /\ Len(call.message.signatures) = call.N
    /\ call.N > 0
    /\ result.ok

IsQuorumError == IsVaaCall /\ ~result.ok /\ result.err.kind = "quorum"

\* C3 as stated: when the quorum error is returned the constraint system
\* is unchanged from its state at the call.
C3_QuorumErrorLeavesCsUnchanged ==
    IsQuorumError => cs = cs0

\* C3 amended: when the quorum error is returned the constraint system
\* holds no allocation from the witness's signatures; it is its state at the
\* call extended by the allocations of the body's fields, which are made
\* before the count is checked.
C3_QuorumErrorAfterBodyOnly ==
    IsQuorumError =>
        /\ SubSeq(cs, 1, Len(cs0)) = cs0
        /\ NewTags = BodyTags
        /\ \A i \in 1..Len(cs) : cs[i].tag # "signature"
        /\ cs = VaaBody_from_vaa_body_witness(cs0, call.message.body).cs

C3_Witness ==
    /\ IsQuorumError
    /\ Len(call.message.signatures) > 0
    /\ Len(cs) = Len(cs0) + Len(BodyTags)

\* C7: signature selection. On success the i-th allocated signature is the
\* one allocated from the i-th signature of the header, for i in 0..N-1;
\* exactly N signatures are allocated, in header order, and those at
\* positions N.. are not.
C7_FirstNInOrder ==
    (IsVaaCall /\ result.ok) =>
        /\ Len(result.val.signatures) = call.N
        /\ \A i \in 1..call.N :
              result.val.signatures[i] = [sig |-> call.message.signatures[i].signature]
        /\ NewValuesOf("signature") =
              [i \in 1..call.N |-> <<call.message.signatures[i].signature>>]

C7_Witness ==
    /\ IsVaaCall
    /\ result.ok
    /\ call.N >= 2
    /\ Len(call.message.signatures) > call.N
    /\ call.message.signatures[1].signature # call.message.signatures[call.N + 1].signature
    /\ call.message.signatures[1].signature > call.message.signatures[2].signature

\* C11: fail-fast error precedence. The steps run in the order body
\* allocation, quorum check, allocation of signatures 0..N-1, and the call
\* returns the error of the first step that fails without running a later
\* one: a rejected body yields the body's error even when the header has fewer
\* than N signatures, and nothing of the signatures is allocated; a short
\* header yields the quorum error with no signature allocated; a failing
\* signature allocation yields its error with only the earlier signatures
\* allocated; a Vaa is returned only when every step succeeded, and then it
\* holds the body and all N signatures.
C11_FailFastPrecedence ==
    IsVaaCall =>
        LET b == VaaBody_from_vaa_body_witness(cs0, call.message.body)
            have == Len(call.message.signatures)
            N == call.N
        IN  /\ ~b.res.ok =>
                  /\ ~result.ok
                  /\ result.err = b.res.err
                  /\ result.err.kind = "format"
                  /\ cs = b.cs
                  /\ NewValuesOf("signature") = <<>>
            /\ (b.res.ok /\ have < N) =>
                  /\ ~result.ok
                  /\ result.err.kind = "quorum"
                  /\ NewTags = BodyTags
            /\ (b.res.ok /\ have >= N /\ call.failAt > 0) =>
                  /\ ~result.ok
                  /\ result.err.kind = "gadget"
                  /\ NewValuesOf("signature") =
                        [i \in 1..(call.failAt - 1) |->
                            <<call.message.signatures[i].signature>>]
            /\ result.ok =>
                  /\ b.res.ok
                  /\ have >= N
                  /\ call.failAt = 0
                  /\ result.val.body = b.res.val
                  /\ Len(result.val.signatures) = N
                  /\ Len(NewValuesOf("signature")) = N
            /\ (b.res.ok /\ have >= N /\ call.failAt = 0) => result.ok

C11_Witness ==
    /\ IsVaaCall
    /\ ~VaaBodyAccepted
    /\ Len(call.message.signatures) < call.N
    /\ Len(call.message.signatures) > 0
    /\ ~result.ok
    /\ result.err.kind = "format"

(***************************************************************************)
(* Properties of Vaa<N>::ecrecover.                                        *)
(***************************************************************************)
IsEcrecoverCall == call.op = "ecrecover"

\* hash(hash(body.to_bytes())) read as a big-endian integer
DoubleHash(body) == BeToLimbs(Keccak256(Keccak256(VaaBody_to_bytes(body))))

\* C8: ecrecover hashes the serialized body exactly twice, reads the result
\* as one big-endian integer d, and on success returns N entries, the i-th
\* being the recovery gadget's result for (signatures[i], d), whatever the
\* validity flags are.
C8_EcrecoverDoubleHash ==
    /\ (IsEcrecoverCall /\ call.failStep = 0) => result.ok
    /\ (IsEcrecoverCall /\ result.ok) =>
        LET d == DoubleHash(call.self.body)
            N == Len(call.self.signatures)
        IN  /\ Len(result.val) = N
            /\ \A i \in 1..N : result.val[i] = Recovered(call.self.signatures[i], d)
            /\ NewValuesOf("keccak256") =
                  <<VaaBody_to_bytes(call.self.body),
                    Keccak256(VaaBody_to_bytes(call.self.body))>>
            /\ NewValuesOf("ecrecover") = [i \in 1..N |-> <<call.self.signatures[i].sig>>]

C8_Witness ==
    /\ IsEcrecoverCall
    /\ result.ok
    /\ Len(result.val) >= 2
    /\ result.val[1].valid
    /\ ~result.val[2].valid
    /\ result.val[1].pubkey.digest = DoubleHash(call.self.body)

(***************************************************************************)
(* Properties of allocation from witnesses.                                *)
(***************************************************************************)
IsPayloadWitnessCall == call.op = "payload_from_witness"
IsBodyWitnessCall    == call.op = "body_from_witness"

\* C9: witness allocation reproduces the wire bytes. to_bytes of a body
\* allocated from an accepted witness is the wire serialization of that
\* witness, and to_bytes of a payload allocated from a decoded byte string is
\* that byte string.
C9_WitnessReproducesWire ==
    /\ (IsBodyWitnessCall /\ result.ok) =>
          VaaBody_to_bytes(result.val) = BodyWire(call.witness)
    /\ (IsPayloadWitnessCall /\ call.decoded.ok) =>
          /\ result.ok
          /\ WormholePayload_to_bytes(result.val) = call.raw

\* C10: fixed-constant enforcement. payload_type is allocated as the
\* constant byte 0 whatever the witness holds; magic, slot, ring_size and root
\* are those of the witness; a payload of another variant yields a format
\* error and no value.
C10_FixedPayloadType ==
    /\ (IsPayloadWitnessCall /\ call.decoded.ok) =>
          LET w == call.decoded.val IN
          /\ result.ok
          /\ result.val.payload_type = <<0>>
          /\ NewValuesOf("payload_type") = << <<0>> >>
          /\ result.val.magic = w.magic
          /\ BeToLimbs(result.val.slot) = w.payload.slot
          /\ BeToLimbs(result.val.ring_size) = w.payload.ring_size
          /\ MerkleRoot_inner(result.val.root) = w.payload.root
    /\ (IsBodyWitnessCall /\ result.ok) =>
          /\ result.val.payload.payload_type = <<0>>
          /\ result.val.payload.magic = Slice(call.witness.payload, 0, 4)
    /\ (IsBodyWitnessCall /\ Len(call.witness.payload) >= 5
          /\ call.witness.payload[5] # 0) =>
          /\ ~result.ok
          /\ result.err.kind = "format"
    /\ (IsPayloadWitnessCall /\ Len(call.raw) >= 5 /\ call.raw[5] # 0) =>
          ~result.ok

C10_Witness ==
    /\ IsPayloadWitnessCall
    /\ result.ok
    /\ result.val.payload_type = <<0>>
    /\ result.val.magic # ACCUMULATOR_UPDATE_WORMHOLE_VERIFICATION_MAGIC
    /\ result.val.magic[1] # 0

====
